---- MODULE Spec2Model ----
(***************************************************************************)
(* Intergas central heating monitor: the request/response engine that     *)
(* polls the boiler over a software serial line, assembles the 32-byte    *)
(* status frame, decodes it and publishes it.                             *)
(*                                                                         *)
(* Spec          the control loop (loop / loopHandler) with the clock, the *)
(*               serial input and the scan-period command as environment.  *)
(* SpecRegular   the same, the loop running at every instant of the clock. *)
(* SpecGetDouble getDouble applied to every byte pair.                     *)
(* SpecWrap      the control loop around a wrap of the millisecond counter.*)
(* SpecCommand   the command handlers, idle and with a request in flight.  *)
(* SpecDecode    processStatus applied to frames drawn from a sample.      *)
(* SpecRedecode  processStatus applied to one frame after another.         *)
(***************************************************************************)
EXTENDS Integers, Sequences, FiniteSets, TLC

VARIABLES
    now,               \* millis(), as the value it has once stored in a long
    lastMsg,           \* long lastMsg
    receiveTimer,      \* long receiveTimer
    scanPeriod,        \* long scanPeriod (milliseconds)
    waitingForAnswer,  \* bool waitingForAnswer
    messageReceived,   \* bool messageReceived
    writeIndex,        \* int writeIndex
    inputBuffer,       \* byte inputBuffer[InputBufferLen]
    rx,                \* bytes received by the SoftwareSerial port, not yet read
    tx,                \* bytes written to the port by the last loop iteration
    serialLog,         \* lines printed on the debug port by the last loop iteration
    ch,                \* the decoded status (ch_* variables)
    pending,           \* bytes of its answer the boiler has still to send
    frameBytes,        \* history: bytes echoed since the last timeout line or decode
    awaitSince,        \* history: time of the request that began the current wait
    obs,               \* history: what the last loop iteration did
    published,         \* the status handed to the publisher by the last loop iteration
    uptime,            \* history: milliseconds really elapsed since the first state
    sentAt,            \* history: uptime at which lastMsg and receiveTimer were set
    sendRawData,       \* bool sendRawData (Homie build)
    syncPeriod,        \* long syncPeriod (seconds)
    cmd,               \* history: the last command handled and what it found
    scratch,           \* the text ftoa wrote for the publisher (SpecGetDouble)
    decodes,           \* history: the buffers decoded by DecodeFrame and their snapshots
    msb, lsb, result   \* argument pair and result of getDouble (SpecGetDouble)

vars == <<now, lastMsg, receiveTimer, scanPeriod, waitingForAnswer, messageReceived,
          writeIndex, inputBuffer, rx, tx, serialLog, ch, pending, frameBytes,
          awaitSince, obs, published, uptime, sentAt,
          sendRawData, syncPeriod, cmd, scratch, decodes, msb, lsb, result>>

(***************************************************************************)
(* Program constants.                                                      *)
(***************************************************************************)
InputBufferLen == 64
StatusMsgLen == 32
TimeoutIntergas == 3 * 1000
MaxLong == 2147483647
MinLong == -MaxLong - 1

(***************************************************************************)
(* Bounds of the model.                                                    *)
(***************************************************************************)
MaxSeconds == 6
MaxRx == 2
MaxResp == 33

(***************************************************************************)
(* Arithmetic of the 32-bit long: a - b with the wrap of the two's         *)
(* complement word, computed without leaving the word's range.  Within the *)
(* horizon of Spec no difference leaves the range.                         *)
(***************************************************************************)
\* a - b stopping at the ends of the word's range instead of wrapping.
SubLongSaturating(a, b) ==
    IF b >= 0
    THEN IF a >= MinLong + b THEN a - b ELSE MinLong
    ELSE IF a <= MaxLong + b THEN a - b ELSE MaxLong

SubLong(a, b) ==
    IF b >= 0
    THEN IF a >= MinLong + b THEN a - b
         ELSE (a - MinLong) + ((MaxLong - b) + 1)
    ELSE IF a <= MaxLong + b THEN a - b
         ELSE ((a - MaxLong) - 1) + (MinLong - b)

\* C integer division: the quotient truncated toward zero.
TruncDiv(a, b) ==
    IF a >= 0 THEN a \div b ELSE -((-a) \div b)

\* Bitwise operators of C on non-negative ints.
RECURSIVE BitAnd(_, _)
BitAnd(a, b) ==
    IF a = 0 \/ b = 0 THEN 0
    ELSE (IF a % 2 = 1 /\ b % 2 = 1 THEN 1 ELSE 0) + 2 * BitAnd(a \div 2, b \div 2)

\* 2^k, the factor of a left shift by k.
RECURSIVE Pow2(_)
Pow2(k) == IF k = 0 THEN 1 ELSE 2 * Pow2(k - 1)

RECURSIVE BitXor(_, _)
BitXor(a, b) ==
    IF a = 0 /\ b = 0 THEN 0
    ELSE (IF a % 2 # b % 2 THEN 1 ELSE 0) + 2 * BitXor(a \div 2, b \div 2)

(***************************************************************************)
(* Floating point.  A value is [m, e], denoting m * 2^e.  An int converts  *)
(* exactly; the single-precision quotient n / d is the nearest value with  *)
(* a 24-bit significand (ties to even); a float widens to double exactly.  *)
(***************************************************************************)
IntToDouble(n) == [m |-> n, e |-> 0]

RECURSIVE ScaleUp(_, _, _)
ScaleUp(x, lo, k) ==
    IF x >= lo THEN <<x, k>> ELSE ScaleUp(2 * x, lo, k + 1)

FloatDiv(n, d) ==
    IF n = 0 THEN [m |-> 0, e |-> 0]
    ELSE LET s == ScaleUp(n, d * 8388608, 0)
             q == s[1] \div d
             r == s[1] % d
             up == 2 * r > d \/ (2 * r = d /\ q % 2 = 1)
         IN  [m |-> IF up THEN q + 1 ELSE q, e |-> -s[2]]

\* double * int, exact while the significand stays below 2^53.
Times(v, k) == [m |-> v.m * k, e |-> v.e]

(***************************************************************************)
(* The byte decoder.                                                       *)
(***************************************************************************)
\* getDouble with the division of the msb <= 127 branch done on ints as well.
getDoubleIntDiv(hi, lo) ==
    IF hi > 127
    THEN IntToDouble(TruncDiv(-(((BitXor(hi, 255) + 1) * 256) - lo), 100))
    ELSE IntToDouble(TruncDiv(hi * 256 + lo, 100))

\* The msb > 127 branch is all int arithmetic: the division by 100 is the
\* integer division, and only its quotient becomes a double.  The other
\* branch divides a float by 100.
getDouble(hi, lo) ==
    IF hi > 127
    THEN IntToDouble(TruncDiv(-(((BitXor(hi, 255) + 1) * 256) - lo), 100))
    ELSE FloatDiv(hi * 256 + lo, 100)

HexDigits == <<"0", "1", "2", "3", "4", "5", "6", "7",
               "8", "9", "A", "B", "C", "D", "E", "F">>

c2h(c) == HexDigits[BitAnd(15, c) + 1]

\* The switch on ch_status_code and its default, sprintf "Code %d".
StatusDescription(code) ==
    CASE code = 51  -> <<"Warm water">>
      [] code = 102 -> <<"CV brandt">>
      [] code = 126 -> <<"CV in rust">>
      [] code = 204 -> <<"Tapwater nadraaien">>
      [] code = 231 -> <<"CV Nadraaien">>
      [] code = 999 -> <<"Status 999">>
      [] OTHER      -> <<"Code", code>>

\* C truth value of an int.
CBool(b) == IF b THEN 1 ELSE 0

\* The fault test taken as: bit 0x80 of byte 27 set means fault.
FaultTestBitSet(b27) == BitAnd(b27, 128) = 128

\* (inputBuffer[27] & 0x80 != 0x80): != binds tighter than &, so the byte is
\* and-ed with the truth value of the comparison of the two constants.
FaultTest(b27) == BitAnd(b27, CBool(128 # 128)) # 0

\* ch_input_buffer: two hex digits and a space for each of the 32 bytes.
HexEcho(buf) ==
    [i \in 0..(3 * StatusMsgLen - 1) |->
        CASE i % 3 = 0 -> c2h(BitAnd(buf[i \div 3], 240) \div 16)
          [] i % 3 = 1 -> c2h(BitAnd(buf[i \div 3], 15))
          [] OTHER     -> " "]

\* The body of processStatus: the ch_* variables computed from the buffer.
Decode(buf) ==
    LET hasPressure == BitAnd(buf[28], 32) = 32
        fault       == FaultTest(buf[27])
        faultCode   == IF fault THEN buf[29] ELSE 0
        statusCode  == IF fault THEN 256 + buf[29] ELSE buf[24]
    IN  [ t1 |-> getDouble(buf[1], buf[0]),
          t2 |-> getDouble(buf[5], buf[4]),
          t3 |-> getDouble(buf[7], buf[6]),
          t4 |-> getDouble(buf[9], buf[8]),
          t5 |-> getDouble(buf[11], buf[10]),
          fanspeed          |-> Times(getDouble(buf[19], buf[18]), 100),
          fanspeed_setpoint |-> Times(getDouble(buf[17], buf[16]), 100),
          fan_pwm           |-> Times(getDouble(buf[21], buf[20]), 10),
          io_current        |-> getDouble(buf[23], buf[22]),
          pressure          |-> IF hasPressure THEN getDouble(buf[13], buf[12])
                                ELSE IntToDouble(-35),
          temp_flow         |-> getDouble(buf[3], buf[2]),
          temp_setpoint     |-> getDouble(buf[15], buf[14]),
          status_byte1      |-> buf[26],
          status_byte2      |-> buf[28],
          has_pressure_sensor |-> hasPressure,
          opentherm         |-> BitAnd(buf[26], 128) = 128,
          pump_running      |-> BitAnd(buf[26], 8) = 8,
          status_code       |-> statusCode,
          fault_code        |-> faultCode,
          status_description |-> StatusDescription(statusCode),
          input_buffer      |-> HexEcho(buf) ]

\* The ch_* variables before the first frame: zero-initialised globals.
NoStatus ==
    [ t1 |-> IntToDouble(0), t2 |-> IntToDouble(0), t3 |-> IntToDouble(0),
      t4 |-> IntToDouble(0), t5 |-> IntToDouble(0),
      fanspeed |-> IntToDouble(0), fanspeed_setpoint |-> IntToDouble(0),
      fan_pwm |-> IntToDouble(0), io_current |-> IntToDouble(0),
      pressure |-> IntToDouble(0), temp_flow |-> IntToDouble(0),
      temp_setpoint |-> IntToDouble(0),
      status_byte1 |-> 0, status_byte2 |-> 0,
      has_pressure_sensor |-> FALSE, opentherm |-> FALSE, pump_running |-> FALSE,
      status_code |-> 0, fault_code |-> 0,
      status_description |-> <<>>,
      input_buffer |-> [i \in 0..(3 * StatusMsgLen - 1) |-> ""] ]

(***************************************************************************)
(* The frame assembler.  Its operations work on the record of the          *)
(* variables they read and write; t is the value millis() returns.         *)
(***************************************************************************)
Asm ==
    [ waitingForAnswer |-> waitingForAnswer,
      messageReceived  |-> messageReceived,
      writeIndex       |-> writeIndex,
      inputBuffer      |-> inputBuffer,
      receiveTimer     |-> receiveTimer,
      rx               |-> rx,
      tx               |-> <<>>,
      log              |-> <<>>,
      port             |-> <<>> ]

\* while (intergas.available() > 0) intergas.read();
RECURSIVE intergasFlush(_)
intergasFlush(q) ==
    IF Len(q) > 0 THEN intergasFlush(Tail(q)) ELSE q

\* intergas.write(c).  port lists what the call does on the serial port and
\* the clock, in the order of the statements.
PortWrite(a, c) ==
    [a EXCEPT !.tx = Append(@, c),
              !.port = Append(@, <<"write", c>>)]

\* intergasFlush(): the entry records the bytes available before and after.
PortFlush(a) ==
    [a EXCEPT !.rx = intergasFlush(@),
              !.port = Append(@, <<"flush", Len(a.rx), Len(intergasFlush(a.rx))>>)]

\* receiveTimer = millis()
PortAnchor(a, t) ==
    [a EXCEPT !.receiveTimer = t,
              !.port = Append(@, <<"millis", t>>)]

\* requestStatus that sends the command before it flushes the input.
requestStatusWriteFirst(a, t) ==
    LET s1 == [a EXCEPT !.log = Append(@, <<"Request status from Intergas">>),
                        !.waitingForAnswer = TRUE]
        s2 == PortWrite(PortWrite(PortWrite(s1, "S"), "?"), "\r")
        s3 == PortFlush(s2)
    IN  PortAnchor(s3, t)

requestStatus(a, t) ==
    LET s1 == [a EXCEPT !.log = Append(@, <<"Request status from Intergas">>),
                        !.waitingForAnswer = TRUE]
        s2 == PortFlush(s1)
        s3 == PortWrite(PortWrite(PortWrite(s2, "S"), "?"), "\r")
    IN  PortAnchor(s3, t)

\* ReadByte that takes the frame as complete one byte later.
ReadByteLate(a) ==
    IF Len(a.rx) > 0
    THEN LET byte == Head(a.rx)
             b == [a EXCEPT
                     !.rx = Tail(@),
                     !.log = (IF a.writeIndex = 0
                              THEN Append(@, <<"Received from Intergas:">>)
                              ELSE @) \o
                             << <<" ", c2h(BitAnd(byte, 240) \div 16),
                                  c2h(BitAnd(byte, 15))>> >>,
                     !.inputBuffer[a.writeIndex] = byte,
                     !.writeIndex = @ + 1]
         IN  IF b.writeIndex = StatusMsgLen + 1
             THEN [b EXCEPT !.writeIndex = 0,
                            !.waitingForAnswer = FALSE,
                            !.messageReceived = TRUE]
             ELSE b
    ELSE a

\* The branch of readStatus that reads one byte, if one is available, echoes
\* it and appends it; the 32nd byte completes the frame.
ReadByte(a) ==
    IF Len(a.rx) > 0
    THEN LET byte == Head(a.rx)
             b == [a EXCEPT
                     !.rx = Tail(@),
                     !.log = (IF a.writeIndex = 0
                              THEN Append(@, <<"Received from Intergas:">>)
                              ELSE @) \o
                             << <<" ", c2h(BitAnd(byte, 240) \div 16),
                                  c2h(BitAnd(byte, 15))>> >>,
                     !.inputBuffer[a.writeIndex] = byte,
                     !.writeIndex = @ + 1]
         IN  IF b.writeIndex = StatusMsgLen
             THEN [b EXCEPT !.writeIndex = 0,
                            !.waitingForAnswer = FALSE,
                            !.messageReceived = TRUE]
             ELSE b
    ELSE a

\* The branch of readStatus taken once the timeout has passed.
GiveUp(a) ==
    [a EXCEPT !.writeIndex = 0,
              !.waitingForAnswer = FALSE,
              !.log = Append(@, <<"Timeout Intergas">>)]

\* readStatus whose timeout branch leaves writeIndex as it is.
readStatusNoReset(a, t) ==
    IF ~a.waitingForAnswer THEN a
    ELSE IF SubLong(t, a.receiveTimer) <= TimeoutIntergas THEN ReadByte(a)
    ELSE [GiveUp(a) EXCEPT !.writeIndex = a.writeIndex]

\* readStatus that measures the timeout in whole seconds.
readStatusSeconds(a, t) ==
    IF ~a.waitingForAnswer THEN a
    ELSE IF SubLong(t, a.receiveTimer) \div 1000 <= TimeoutIntergas \div 1000
    THEN ReadByte(a)
    ELSE GiveUp(a)

\* readStatus that gives up one millisecond early: elapsed < TimeoutIntergas - 1.
readStatusEarly(a, t) ==
    IF ~a.waitingForAnswer THEN a
    ELSE IF SubLong(t, a.receiveTimer) < TimeoutIntergas - 1 THEN ReadByte(a)
    ELSE GiveUp(a)

\* readStatus without the waitingForAnswer test.
readStatusAlways(a, t) ==
    IF SubLong(t, a.receiveTimer) <= TimeoutIntergas THEN ReadByte(a)
    ELSE GiveUp(a)

readStatus(a, t) ==
    IF ~a.waitingForAnswer THEN a
    ELSE IF SubLong(t, a.receiveTimer) <= TimeoutIntergas THEN ReadByte(a)
    ELSE GiveUp(a)

\* processStatus that sets ch_pressure only when the pressure sensor is there.
processStatusKeepPressure(a, c) ==
    IF a.messageReceived
    THEN [Decode(a.inputBuffer) EXCEPT
            !.pressure = IF BitAnd(a.inputBuffer[28], 32) = 32 THEN @ ELSE c.pressure]
    ELSE c

\* processStatus: decode when a frame is ready.
processStatus(a, c) ==
    IF a.messageReceived THEN Decode(a.inputBuffer) ELSE c

\* sendStatus that publishes and leaves messageReceived set.
sendStatusKeepFlag(a, c) ==
    IF a.messageReceived
    THEN <<a, <<c>> >>
    ELSE <<a, <<>> >>

\* sendStatus: publish the decoded status and clear the flag.  The result is
\* the pair of the assembler record and the status published (or <<>>).
sendStatus(a, c) ==
    IF a.messageReceived
    THEN <<[a EXCEPT !.messageReceived = FALSE], <<c>> >>
    ELSE <<a, <<>> >>

(***************************************************************************)
(* The control loop and its environment.                                   *)
(***************************************************************************)
\* The schedule test with >= in place of >.
ScanDueAtPeriod(t, last, period) == SubLong(t, last) >= period

\* if (timeInMillis - lastMsg > scanPeriod)
ScanDue(t, last, period) == SubLong(t, last) > period

\* The accepted range of the scan-period command, in seconds.
PeriodAccepted(period) == period > 1

\* Payloads of the scan-period command, as String::toInt reads them.
PeriodValues == {1, 2, 5}

\* Default scan period set by setup(): 5000 ms, 10000 ms in the Homie build.
DefaultScanPeriods == {5000, 10000}

\* The instants at which the model looks at the clock: every whole second
\* and the millisecond after it.  Differences of two such instants take every
\* value of the form 1000 k - 1, 1000 k and 1000 k + 1.
NextInstant(t) == IF t % 1000 = 0 THEN t + 1 ELSE t + 999

NoObs ==
    [ ran |-> FALSE, t |-> 0, elapsedSched |-> 0, period |-> 0, requested |-> FALSE,
      waitingAtTick |-> FALSE, waitingAtRead |-> FALSE, elapsedRecv |-> 0,
      wiBefore |-> 0, avail |-> 0, appended |-> FALSE, timeout |-> FALSE,
      completed |-> FALSE, decoded |-> FALSE, frameLen |-> 0,
      realSched |-> 0, realRecv |-> 0, port |-> <<>> ]

\* No command handled yet.
NoCmd ==
    [ topic |-> "", payload |-> <<>>, period |-> 0, returned |-> <<>>, sent |-> <<>>,
      scanPeriod |-> 0, sendRawData |-> FALSE, syncPeriod |-> 0 ]

InitEngine ==
    /\ now = 0
    /\ lastMsg = 0
    /\ receiveTimer = 0
    /\ waitingForAnswer = FALSE
    /\ messageReceived = FALSE
    /\ writeIndex = 0
    /\ inputBuffer = [i \in 0..(InputBufferLen - 1) |-> 0]
    /\ rx = <<>>
    /\ tx = <<>>
    /\ serialLog = <<>>
    /\ ch = NoStatus
    /\ pending = 0
    /\ frameBytes = 0
    /\ awaitSince = 0
    /\ obs = NoObs
    /\ published = <<>>
    /\ uptime = 0
    /\ sentAt = 0
    /\ sendRawData = FALSE
    /\ syncPeriod = 86400
    /\ cmd = NoCmd

Init ==
    /\ InitEngine
    /\ scanPeriod \in DefaultScanPeriods
    /\ msb = 0 /\ lsb = 0 /\ result = IntToDouble(0) /\ scratch = <<>>
    /\ decodes = <<>>

\* One iteration of loop(): the schedule test, readStatus, processStatus, sendStatus.
\* a1, a2, c2 and s3 are the values after the schedule test, readStatus,
\* processStatus and sendStatus.
Loop ==
    \E a1 \in {IF ScanDue(now, lastMsg, scanPeriod)
                THEN requestStatus(Asm, now) ELSE Asm} :
    \E a2 \in {readStatus(a1, now)} :
    \E c2 \in {processStatus(a2, ch)} :
    \E s3 \in {sendStatus(a2, c2)} :
    LET t   == now
        due == ScanDue(t, lastMsg, scanPeriod)
        a3  == s3[1]
        appended == Len(a2.rx) < Len(a1.rx)
        timedOut == \E i \in 1..Len(a2.log) : a2.log[i] = <<"Timeout Intergas">>
        decoded  == s3[2] # <<>>
        got      == frameBytes + CBool(appended)
    IN  /\ lastMsg' = IF due THEN t ELSE lastMsg
        /\ waitingForAnswer' = a3.waitingForAnswer
        /\ messageReceived' = a3.messageReceived
        /\ writeIndex' = a3.writeIndex
        /\ inputBuffer' = a3.inputBuffer
        /\ receiveTimer' = a3.receiveTimer
        /\ rx' = a3.rx
        /\ tx' = a3.tx
        /\ serialLog' = a3.log
        /\ ch' = c2
        /\ published' = s3[2]
        /\ pending' = IF Len(a1.tx) > 0 THEN MaxResp ELSE pending
        /\ frameBytes' = IF timedOut \/ decoded THEN 0 ELSE got
        /\ awaitSince' = IF ~a3.waitingForAnswer THEN 0
                         ELSE IF waitingForAnswer THEN awaitSince ELSE t
        /\ obs' = [ ran |-> TRUE, t |-> t,
                    elapsedSched |-> SubLong(t, lastMsg),
                    period |-> scanPeriod,
                    requested |-> Len(a1.tx) > 0,
                    waitingAtTick |-> waitingForAnswer,
                    waitingAtRead |-> a1.waitingForAnswer,
                    elapsedRecv |-> SubLong(t, a1.receiveTimer),
                    wiBefore |-> a1.writeIndex,
                    avail |-> Len(a1.rx),
                    appended |-> appended,
                    timeout |-> timedOut,
                    completed |-> a2.messageReceived,
                    decoded |-> decoded,
                    frameLen |-> IF decoded THEN got ELSE 0,
                    realSched |-> uptime - sentAt,
                    realRecv |-> IF due THEN 0 ELSE uptime - sentAt,
                    port |-> a1.port ]
        /\ sentAt' = IF due THEN uptime ELSE sentAt
        /\ UNCHANGED <<now, scanPeriod, uptime,
                       sendRawData, syncPeriod, cmd, scratch, decodes, msb, lsb, result>>

\* What every step of the environment does to the outputs of the last iteration.
Quiet ==
    /\ tx' = <<>>
    /\ serialLog' = <<>>
    /\ published' = <<>>
    /\ obs' = NoObs

\* a + d in the 32-bit long: past MaxLong the word continues at MinLong, and
\* below MinLong at MaxLong.
AddLong(a, d) ==
    IF d >= 0
    THEN IF a <= MaxLong - d THEN a + d
         ELSE MinLong + ((d - (MaxLong - a)) - 1)
    ELSE IF a >= MinLong - d THEN a + d
         ELSE (MaxLong + ((a - MinLong) + d)) + 1

\* a * k in the 32-bit long, k >= 0, by doubling.
RECURSIVE MulLong(_, _)
MulLong(a, k) ==
    IF k = 0 THEN 0
    ELSE LET h == MulLong(a, k \div 2)
         IN  IF k % 2 = 0 THEN AddLong(h, h) ELSE AddLong(AddLong(h, h), a)

\* The millisecond counter advances to the next instant; now is the counter
\* as the long it is stored in.
Tick ==
    /\ NextInstant(uptime) <= MaxSeconds * 1000 + 1
    /\ uptime' = NextInstant(uptime)
    /\ now' = AddLong(now, NextInstant(uptime) - uptime)
    /\ Quiet
    /\ UNCHANGED <<lastMsg, receiveTimer, scanPeriod, waitingForAnswer, messageReceived,
                   writeIndex, inputBuffer, rx, ch, pending, frameBytes, awaitSince,
                   sentAt,
                   sendRawData, syncPeriod, cmd, scratch, decodes, msb, lsb, result>>

\* The boiler sends the next byte of its answer to the last request: at most
\* MaxResp bytes, the k-th of value k, the port holding at most MaxRx unread.
Arrive ==
    /\ pending > 0
    /\ Len(rx) < MaxRx
    /\ rx' = Append(rx, (MaxResp - pending) % 256)
    /\ pending' = pending - 1
    /\ Quiet
    /\ UNCHANGED <<now, lastMsg, receiveTimer, scanPeriod, waitingForAnswer,
                   messageReceived, writeIndex, inputBuffer, ch, frameBytes,
                   awaitSince, uptime, sentAt,
                   sendRawData, syncPeriod, cmd, scratch, decodes, msb, lsb, result>>

\* The scan-period command (MQTT_callback / centralHeatingPeriodHandler).
SetScanPeriod ==
    \E period \in PeriodValues :
        /\ scanPeriod' = IF PeriodAccepted(period) THEN period * 1000 ELSE scanPeriod
        /\ Quiet
        /\ UNCHANGED <<now, lastMsg, receiveTimer, waitingForAnswer, messageReceived,
                       writeIndex, inputBuffer, rx, ch, pending, frameBytes, awaitSince,
                       uptime, sentAt,
                       sendRawData, syncPeriod, cmd, scratch, decodes, msb, lsb, result>>

Next == Loop \/ Tick \/ Arrive \/ SetScanPeriod

Spec == Init /\ [][Next]_vars

(***************************************************************************)
(* SpecRegular: the control loop keeps running.  The clock advances only   *)
(* right after a loop iteration, so that the loop runs at every instant.   *)
(***************************************************************************)
TickAfterLoop == obs.ran /\ Tick

NextRegular == Loop \/ TickAfterLoop \/ Arrive \/ SetScanPeriod

SpecRegular == Init /\ [][NextRegular]_vars

(***************************************************************************)
(* SpecWrap: the control loop around a wrap of the millisecond counter.    *)
(* millis() counts modulo 2^32 and is stored in a long: the long passes    *)
(* from MaxLong to MinLong when the counter reaches 2^31 and from -1 to 0  *)
(* when the counter itself wraps.  The first state is 500 ms or 2500 ms    *)
(* before one of the two: the device has been running for weeks, the last  *)
(* request, 4000 ms ago, was not answered and has timed out.  No command   *)
(* arrives while the counter wraps; the scan period is that of setup().    *)
(* The differences t - receiveTimer and timeInMillis - lastMsg are taken   *)
(* by the subtract instruction of the 32-bit word, which wraps (SubLong).  *)
(***************************************************************************)
WrapEpochs == {MaxLong - 499, MaxLong - 2499, -500, -2500}

InitWrap ==
    /\ now \in WrapEpochs
    /\ uptime = 0
    /\ sentAt = -4000
    /\ lastMsg = SubLong(now, 4000)
    /\ receiveTimer = SubLong(now, 4000)
    /\ scanPeriod = 5000
    /\ waitingForAnswer = FALSE
    /\ messageReceived = FALSE
    /\ writeIndex = 0
    /\ inputBuffer = [i \in 0..(InputBufferLen - 1) |-> 0]
    /\ rx = <<>> /\ tx = <<>> /\ serialLog = <<>>
    /\ ch = NoStatus
    /\ pending = MaxResp
    /\ frameBytes = 0 /\ awaitSince = 0
    /\ obs = NoObs
    /\ published = <<>>
    /\ sendRawData = FALSE /\ syncPeriod = 86400 /\ cmd = NoCmd
    /\ msb = 0 /\ lsb = 0 /\ result = IntToDouble(0) /\ scratch = <<>>
    /\ decodes = <<>>

NextWrap == Loop \/ Tick \/ Arrive

SpecWrap == InitWrap /\ [][NextWrap]_vars

(***************************************************************************)
(* SpecCommand: the command handlers, that of the input-buffer property of *)
(* the simulation build (INTERGAS_SIMULATE) among them.  A payload is the  *)
(* sequence of its characters.  The first state is the state after setup() *)
(* or a state with a request in flight, issued when the default scan       *)
(* period had passed, of whose answer 0, 1 or 31 bytes have been read.     *)
(***************************************************************************)
DigitChars == <<"0", "1", "2", "3", "4", "5", "6", "7", "8", "9">>

IsDigit(c) == \E d \in 1..Len(DigitChars) : DigitChars[d] = c

DigitOf(c) == (CHOOSE d \in 1..Len(DigitChars) : DigitChars[d] = c) - 1

RECURSIVE ParseDigits(_, _)
ParseDigits(s, acc) ==
    IF Len(s) = 0 \/ ~IsDigit(Head(s)) THEN acc
    ELSE ParseDigits(Tail(s), acc * 10 + DigitOf(Head(s)))

RECURSIVE SkipSpace(_)
SkipSpace(s) ==
    IF Len(s) > 0 /\ Head(s) = " " THEN SkipSpace(Tail(s)) ELSE s

\* String::toInt(), which is atol: leading blanks, an optional sign, then the
\* digits up to the first other character; 0 when there is no digit.
toInt(s) ==
    LET t == SkipSpace(s)
    IN  IF Len(t) > 0 /\ Head(t) = "-" THEN -ParseDigits(Tail(t), 0)
        ELSE IF Len(t) > 0 /\ Head(t) = "+" THEN ParseDigits(Tail(t), 0)
        ELSE ParseDigits(t, 0)

ScanPeriodPayloads ==
    { <<"5">>, <<"2">>, <<"1">>, <<"0">>, <<"-", "5">>, <<>>, <<"a", "b", "c">>,
      <<" ", "7", "s">>,
      <<"2", "1", "4", "7", "4", "8", "3">>,
      <<"2", "1", "4", "7", "4", "8", "4">> }

RawDataPayloads ==
    { <<"t", "r", "u", "e">>, <<"f", "a", "l", "s", "e">>,
      <<"T", "r", "u", "e">>, <<"1">>, <<>> }

SyncPeriodPayloads == { <<"6", "0">>, <<"1">>, <<"x">> }

\* A handler that also restarts the frame being assembled.
HandlerFrameRestart ==
    /\ Quiet
    /\ writeIndex' = 0
    /\ UNCHANGED <<now, lastMsg, receiveTimer, waitingForAnswer, messageReceived,
                   inputBuffer, rx, ch, pending, frameBytes, awaitSince,
                   uptime, sentAt, scratch, decodes, msb, lsb, result>>

\* What the reconfiguration handlers leave alone.
HandlerFrame ==
    /\ Quiet
    /\ UNCHANGED <<now, lastMsg, receiveTimer, waitingForAnswer, messageReceived,
                   writeIndex, inputBuffer, rx, ch, pending, frameBytes, awaitSince,
                   uptime, sentAt, scratch, decodes, msb, lsb, result>>

\* centralHeatingPeriodHandler; returned is the handler's return value.
ScanPeriodCommand ==
    \E value \in ScanPeriodPayloads :
    \E period \in {toInt(value)} :
        /\ scanPeriod' = IF PeriodAccepted(period) THEN MulLong(period, 1000)
                          ELSE scanPeriod
        /\ cmd' = [ topic |-> "scan-period", payload |-> value, period |-> period,
                    returned |-> <<PeriodAccepted(period)>>,
                    sent |-> IF PeriodAccepted(period) THEN <<"scan-period", period>>
                             ELSE <<>>,
                    scanPeriod |-> scanPeriod, sendRawData |-> sendRawData,
                    syncPeriod |-> syncPeriod ]
        /\ HandlerFrame
        /\ UNCHANGED <<sendRawData, syncPeriod>>

\* centralHeatingRawDataHandler
RawDataCommand ==
    \E value \in RawDataPayloads :
    \E known \in {value = <<"t", "r", "u", "e">> \/ value = <<"f", "a", "l", "s", "e">>} :
        /\ sendRawData' = IF value = <<"t", "r", "u", "e">> THEN TRUE
                           ELSE IF value = <<"f", "a", "l", "s", "e">> THEN FALSE
                           ELSE sendRawData
        /\ cmd' = [ topic |-> "send-raw-data", payload |-> value, period |-> 0,
                    returned |-> <<known>>,
                    sent |-> IF known THEN <<"send-raw-data", value>> ELSE <<>>,
                    scanPeriod |-> scanPeriod, sendRawData |-> sendRawData,
                    syncPeriod |-> syncPeriod ]
        /\ HandlerFrame
        /\ UNCHANGED <<scanPeriod, syncPeriod>>

\* MQTT_callback on chig1/set/sync-period; the callback returns nothing.
SyncPeriodCommand ==
    \E value \in SyncPeriodPayloads :
    \E period \in {toInt(value)} :
        /\ syncPeriod' = IF period > 1 THEN period ELSE syncPeriod
        /\ cmd' = [ topic |-> "sync-period", payload |-> value, period |-> period,
                    returned |-> <<>>, sent |-> <<>>,
                    scanPeriod |-> scanPeriod, sendRawData |-> sendRawData,
                    syncPeriod |-> syncPeriod ]
        /\ HandlerFrame
        /\ UNCHANGED <<scanPeriod, sendRawData>>

LowerHexDigits == <<"0", "1", "2", "3", "4", "5", "6", "7",
                    "8", "9", "a", "b", "c", "d", "e", "f">>
UpperHexLetters == <<"A", "B", "C", "D", "E", "F">>

\* value.charAt(i): the character at index i, the NUL character (here "")
\* outside the string.
charAt(value, i) == IF i < Len(value) THEN value[i + 1] ELSE ""

\* byte toHex(char c): c - '0' for a digit; c - 'a' + 0x0a for a letter whose
\* lower case is in a..f, which for an upper case letter is negative and
\* becomes 234..239 as a byte; 0 for any other character.
toHex(c) ==
    IF IsDigit(c) THEN DigitOf(c)
    ELSE IF \E d \in 11..16 : LowerHexDigits[d] = c
    THEN (CHOOSE d \in 11..16 : LowerHexDigits[d] = c) - 1
    ELSE IF \E d \in 1..6 : UpperHexLetters[d] = c
    THEN ((65 + ((CHOOSE d \in 1..6 : UpperHexLetters[d] = c) - 1)) - 97 + 10) + 256
    ELSE 0

\* byte toHex(char c1, char c2): toHex(c1) << 4 + toHex(c2), where + binds
\* tighter than <<, cut to a byte.
toHexPair(c1, c2) == (toHex(c1) * Pow2(4 + toHex(c2))) % 256

\* The text of a frame as the input-buffer property takes it: two hex digits
\* and a blank for each byte, no blank after the last.  The digits are lower
\* case, which keeps the shift of toHexPair below the width of an int.
HexText(buf) ==
    [j \in 1..(3 * StatusMsgLen - 1) |->
        CASE (j - 1) % 3 = 0 -> LowerHexDigits[(buf[(j - 1) \div 3] \div 16) + 1]
          [] (j - 1) % 3 = 1 -> LowerHexDigits[(buf[(j - 1) \div 3] % 16) + 1]
          [] OTHER           -> " "]

BufferPayloads == { <<>>, HexText([i \in 0..(StatusMsgLen - 1) |-> 8 * i]) }

\* bufferInputHandler (simulation build): writes ch_input_buffer and hands
\* the frame buffer to the decoder as if an answer were complete.
BufferInputCommand ==
    \E value \in BufferPayloads :
        /\ ch' = [ch EXCEPT !.input_buffer =
                     [i \in DOMAIN @ |->
                        IF i < 32
                        THEN toHexPair(charAt(value, 3 * i), charAt(value, 3 * i + 1))
                        ELSE @[i]]]
        /\ waitingForAnswer' = FALSE
        /\ messageReceived' = TRUE
        /\ cmd' = [ topic |-> "input-buffer", payload |-> value, period |-> 0,
                    returned |-> <<TRUE>>, sent |-> <<>>,
                    scanPeriod |-> scanPeriod, sendRawData |-> sendRawData,
                    syncPeriod |-> syncPeriod ]
        /\ awaitSince' = 0
        /\ Quiet
        /\ UNCHANGED <<now, lastMsg, receiveTimer, scanPeriod, writeIndex, inputBuffer,
                       rx, pending, frameBytes, uptime, sentAt,
                       sendRawData, syncPeriod, scratch, decodes, msb, lsb, result>>

\* Bytes of the answer read so far in the first states with a request in flight.
InFlightRead == {0, 1, StatusMsgLen - 1}

InitCommand ==
    /\ scanPeriod \in DefaultScanPeriods
    /\ messageReceived = FALSE
    /\ rx = <<>> /\ tx = <<>> /\ serialLog = <<>>
    /\ ch = NoStatus
    /\ obs = NoObs
    /\ published = <<>>
    /\ sendRawData = FALSE /\ syncPeriod = 86400 /\ cmd = NoCmd
    /\ msb = 0 /\ lsb = 0 /\ result = IntToDouble(0) /\ scratch = <<>>
    /\ decodes = <<>>
    /\ \/ /\ waitingForAnswer = FALSE
          /\ now = 0 /\ uptime = 0
          /\ lastMsg = 0 /\ receiveTimer = 0 /\ sentAt = 0 /\ awaitSince = 0
          /\ writeIndex = 0
          /\ inputBuffer = [i \in 0..(InputBufferLen - 1) |-> 0]
          /\ pending = 0 /\ frameBytes = 0
       \/ /\ waitingForAnswer = TRUE
          /\ now = scanPeriod + 1 /\ uptime = now
          /\ lastMsg = now /\ receiveTimer = now /\ sentAt = now /\ awaitSince = now
          /\ writeIndex \in InFlightRead
          /\ inputBuffer = [i \in 0..(InputBufferLen - 1) |->
                               IF i < writeIndex THEN i ELSE 0]
          /\ pending = MaxResp - writeIndex /\ frameBytes = writeIndex

NextCommand ==
    ScanPeriodCommand \/ RawDataCommand \/ SyncPeriodCommand \/ BufferInputCommand

SpecCommand == InitCommand /\ [][NextCommand]_vars

(***************************************************************************)
(* The publisher's number format.  A text is the sequence of its           *)
(* characters.                                                             *)
(***************************************************************************)
\* The decimal digits of n >= 0.
RECURSIVE Digits(_)
Digits(n) ==
    IF n < 10 THEN <<DigitChars[n + 1]>>
    ELSE Append(Digits(n \div 10), DigitChars[(n % 10) + 1])

\* itoa(n, a, 10)
itoa(n) == IF n < 0 THEN <<"-">> \o Digits(-n) ELSE Digits(n)

Abs(n) == IF n < 0 THEN -n ELSE n

\* long p[] of ftoa
FtoaScale == <<0, 10, 100, 1000, 10000, 100000, 1000000, 10000000, 100000000>>

\* ftoa(a, f, precision): (long)f, a point, then abs((long)((f - heiltal) *
\* p[precision])), both written by itoa.  f = m * 2^e with e <= 0 and a
\* significand of at most 24 bits, so the difference and the product are exact.
ftoa(f, precision) ==
    LET unit    == Pow2(-f.e)
        heiltal == TruncDiv(f.m, unit)
        deci    == Abs(TruncDiv((f.m - heiltal * unit) * FtoaScale[precision + 1], unit))
    IN  itoa(heiltal) \o <<".">> \o itoa(deci)

(***************************************************************************)
(* SpecGetDouble: getDouble called once on a byte pair, every pair of      *)
(* bytes being a possible argument, and the value written by sendDouble.   *)
(***************************************************************************)
Bytes == 0..255

InitGetDouble ==
    /\ InitEngine
    /\ scanPeriod = 5000
    /\ msb \in Bytes
    /\ lsb \in Bytes
    /\ result = <<>>
    /\ scratch = <<>>
    /\ decodes = <<>>

CallGetDouble ==
    /\ result = <<>>
    /\ result' = <<getDouble(msb, lsb)>>
    /\ UNCHANGED <<now, lastMsg, receiveTimer, scanPeriod, waitingForAnswer,
                   messageReceived, writeIndex, inputBuffer, rx, tx, serialLog, ch,
                   pending, frameBytes, awaitSince, obs, published, uptime, sentAt,
                   sendRawData, syncPeriod, cmd, scratch, decodes, msb, lsb>>

\* sendDouble: ftoa(scratch, payload, 2) on the value getDouble returned.
SendDouble ==
    /\ result # <<>>
    /\ scratch = <<>>
    /\ scratch' = <<ftoa(result[1], 2)>>
    /\ UNCHANGED <<now, lastMsg, receiveTimer, scanPeriod, waitingForAnswer,
                   messageReceived, writeIndex, inputBuffer, rx, tx, serialLog, ch,
                   pending, frameBytes, awaitSince, obs, published, uptime, sentAt,
                   sendRawData, syncPeriod, cmd, decodes, msb, lsb, result>>

NextGetDouble == CallGetDouble \/ SendDouble

SpecGetDouble == InitGetDouble /\ [][NextGetDouble]_vars

(***************************************************************************)
(* SpecDecode: a complete frame is in the buffer (messageReceived) and the *)
(* loop decodes and publishes it.  The frames are the sample answer of the *)
(* simulation build with the status and fault bytes varied, and with one   *)
(* of the measurement pairs replaced.                                      *)
(***************************************************************************)
inputBufferSim ==
    << 101, 12, 80, 12, 70, 12, 119, 10, 151, 243,
       150, 243, 88, 2, 0, 0, 0, 0, 0, 0,
       0, 0, 0, 0, 126, 0, 65, 64, 0, 255,
       0, 255 >>

SampleByte24 == {126, 51, 0, 255}
SampleByte27 == {64, 0, 128, 255}
SampleByte28 == {0, 32}
SampleByte29 == {255, 7, 0}

SampleFrame(b24, b27, b28, b29) ==
    [i \in 0..(InputBufferLen - 1) |->
        CASE i = 24 -> b24
          [] i = 27 -> b27
          [] i = 28 -> b28
          [] i = 29 -> b29
          [] i < StatusMsgLen -> inputBufferSim[i + 1]
          [] OTHER -> 0]

\* The measurement pairs start at the even offsets 0..22; one of them may be
\* replaced by a sample pair <<scratch, decodes, msb, lsb>>.
PairOffsets == {2 * j : j \in 0..11}
SamplePairs == { <<0, 0>>, <<7, 213>>, <<127, 255>>, <<255, 157>>, <<128, 1>> }

WithPair(buf, at, pair) ==
    [i \in DOMAIN buf |->
        IF i = at THEN pair[2] ELSE IF i = at + 1 THEN pair[1] ELSE buf[i]]

SampleFrames ==
    LET plain == { SampleFrame(b24, b27, b28, b29) :
                     b24 \in SampleByte24, b27 \in SampleByte27,
                     b28 \in SampleByte28, b29 \in SampleByte29 }
    IN  plain \cup { WithPair(f, at, pair) :
                        f \in plain, at \in PairOffsets, pair \in SamplePairs }

InitDecode ==
    /\ now = 0 /\ lastMsg = 0 /\ receiveTimer = 0
    /\ scanPeriod = 5000
    /\ waitingForAnswer = FALSE
    /\ messageReceived = TRUE
    /\ writeIndex = 0
    /\ inputBuffer \in SampleFrames
    /\ rx = <<>> /\ tx = <<>> /\ serialLog = <<>>
    /\ ch = NoStatus
    /\ pending = 0 /\ frameBytes = 0 /\ awaitSince = 0
    /\ obs = NoObs
    /\ published = <<>>
    /\ uptime = 0 /\ sentAt = 0
    /\ sendRawData = FALSE /\ syncPeriod = 86400 /\ cmd = NoCmd
    /\ msb = 0 /\ lsb = 0 /\ result = IntToDouble(0) /\ scratch = <<>>
    /\ decodes = <<>>

\* processStatus and sendStatus on the frame that is ready.
DecodeFrame ==
    /\ messageReceived
    /\ LET c  == processStatus(Asm, ch)
           s3 == sendStatus(Asm, c)
       IN  /\ ch' = c
           /\ published' = s3[2]
           /\ messageReceived' = s3[1].messageReceived
           /\ decodes' = Append(decodes, <<inputBuffer, c>>)
    /\ UNCHANGED <<now, lastMsg, receiveTimer, scanPeriod, waitingForAnswer,
                   writeIndex, inputBuffer, rx, tx, serialLog, pending, frameBytes,
                   awaitSince, obs, uptime, sentAt,
                   sendRawData, syncPeriod, cmd, scratch, msb, lsb, result>>

NextDecode == DecodeFrame

SpecDecode == InitDecode /\ [][NextDecode]_vars

(***************************************************************************)
(* SpecRedecode: one frame after another completes and is decoded, the     *)
(* ch_* variables keeping the values of the decode before.  The frames are *)
(* the sample answer, with and without pressure sensor, and the answer     *)
(* with two of its temperatures replaced.                                  *)
(***************************************************************************)
MaxDecodes == 3

RedecodeFrames ==
    { SampleFrame(126, 64, 0, 255),
      SampleFrame(126, 64, 32, 255),
      SampleFrame(51, 128, 32, 7),
      WithPair(SampleFrame(126, 64, 32, 255), 0, <<7, 213>>),
      WithPair(SampleFrame(126, 64, 0, 255), 8, <<127, 255>>) }

InitRedecode ==
    /\ InitEngine
    /\ scanPeriod \in DefaultScanPeriods
    /\ msb = 0 /\ lsb = 0 /\ result = IntToDouble(0) /\ scratch = <<>>
    /\ decodes = <<>>

\* readStatus has read the 32nd byte of an answer: the buffer holds a frame.
FrameCompletes ==
    /\ ~messageReceived
    /\ Len(decodes) < MaxDecodes
    /\ inputBuffer' \in RedecodeFrames
    /\ messageReceived' = TRUE
    /\ Quiet
    /\ UNCHANGED <<now, lastMsg, receiveTimer, scanPeriod, waitingForAnswer,
                   writeIndex, rx, ch, pending, frameBytes, awaitSince, uptime, sentAt,
                   sendRawData, syncPeriod, cmd, scratch, decodes, msb, lsb, result>>

NextRedecode == FrameCompletes \/ DecodeFrame

SpecRedecode == InitRedecode /\ [][NextRedecode]_vars

(***************************************************************************)
(* Reading a decoded value.                                                *)
(***************************************************************************)
\* The whole number of hundredths nearest to the value v (v.e <= 0).
Hundredths(v) ==
    LET p == Pow2(-v.e)
        x == 100 * (IF v.m < 0 THEN -v.m ELSE v.m)
        q == x \div p
        h == IF 2 * (x % p) >= p THEN q + 1 ELSE q
    IN  IF v.m < 0 THEN -h ELSE h

\* The 16-bit pair as an unsigned number, and the magnitude of its two's
\* complement value when the sign bit is set.
Pair(hi, lo) == hi * 256 + lo
Magnitude(hi, lo) == 65536 - Pair(hi, lo)

(***************************************************************************)
(* The decoder's claims.                                                   *)
(***************************************************************************)
Decoded == published # <<>>

\* C6: a frame whose byte 27 has bit 0x80 clear decodes to fault_code = byte 29
\* and status_code = 256 + byte 29.
C6_FaultWidensStatus ==
    (Decoded /\ BitAnd(inputBuffer[27], 128) = 0) =>
        /\ ch.fault_code = inputBuffer[29]
        /\ ch.status_code = 256 + inputBuffer[29]

Called == result # <<>>

\* C7: for msb > 127 getDouble returns -N/100 with the hundredths kept, N the
\* magnitude of the 16-bit two's complement value.
C7_NegativeKeepsHundredths ==
    (Called /\ msb > 127) => Hundredths(result[1]) = -Magnitude(msb, lsb)

\* C8: for msb > 127 the value getDouble returns is strictly negative.
C8_NegativeIsNegative ==
    (Called /\ msb > 127) => result[1].m < 0

\* C9: for msb <= 127 getDouble returns (msb*256 + lsb)/100: zero or positive,
\* and in hundredths exactly msb*256 + lsb.
C9_PositiveKeepsHundredths ==
    (Called /\ msb <= 127) =>
        /\ result[1].m >= 0
        /\ (result[1].m = 0) = (Pair(msb, lsb) = 0)
        /\ Hundredths(result[1]) = Pair(msb, lsb)

\* The first temperature of the sample answer, 0x0C65: 31.73.
C9_Witness ==
    /\ Called /\ msb = 12 /\ lsb = 101
    /\ Hundredths(result[1]) = 3173
    /\ result[1].e < 0

(***************************************************************************)
(* The engine's claims.  obs describes the loop iteration that has just    *)
(* run: t its time, elapsedSched = t - lastMsg at the schedule test,        *)
(* waitingAtRead, wiBefore, avail and elapsedRecv = t - receiveTimer the    *)
(* state readStatus found.                                                 *)
(***************************************************************************)
\* C1: a frame is decoded and published only when exactly 32 bytes have been
\* appended to the frame buffer since it was last empty, also after timeouts
\* and repeated requests; between iterations no frame is left undecoded.
C1_DecodeOnlyFullFrame ==
    /\ ~messageReceived
    /\ (obs.completed \/ obs.decoded \/ published # <<>>) =>
          /\ obs.frameLen = StatusMsgLen
          /\ obs.appended /\ obs.completed /\ obs.decoded /\ published = <<ch>>

\* A frame decoded although a repeated request flushed part of the answer:
\* the 32 bytes are not the bytes 0..31 of one answer.
C1_Witness ==
    /\ obs.decoded /\ obs.frameLen = StatusMsgLen
    /\ inputBuffer[StatusMsgLen - 1] # StatusMsgLen - 1

\* C2: requestStatus is never called while waitingForAnswer is true.
C2_NoRequestWhileWaiting ==
    ~(obs.ran /\ obs.requested /\ obs.waitingAtTick)

\* C3: with the control loop running at every instant, the assembler does not
\* stay AwaitingResponse: a loop iteration that runs more than 3000 ms after
\* the request that began the wait leaves it Idle.
C3_WaitEndsByTimeout ==
    (obs.ran /\ waitingForAnswer) => SubLong(obs.t, awaitSince) <= TimeoutIntergas

\* What readStatus does when it gives up the wait.
TimedOut ==
    /\ ~obs.appended /\ Len(rx) = obs.avail
    /\ obs.timeout
    /\ writeIndex = 0
    /\ ~waitingForAnswer
    /\ ~obs.completed /\ ~obs.decoded /\ ~messageReceived

\* C4, as amended: readStatus in AwaitingResponse more than 3000 ms after the
\* request (elapsed > 3000) appends no byte, resets writeIndex to 0, returns to
\* Idle, reports Timeout and leaves messageReceived false.
C4_TimeoutAfterWindow ==
    (obs.ran /\ obs.waitingAtRead /\ obs.elapsedRecv > TimeoutIntergas) => TimedOut

\* C4 as stated: the same from elapsed >= 3000 on.
C4_TimeoutAtWindow ==
    (obs.ran /\ obs.waitingAtRead /\ obs.elapsedRecv >= TimeoutIntergas) => TimedOut

\* 31 bytes received, a 32nd available, 3001 ms elapsed: timeout.
C4_Witness ==
    /\ obs.ran /\ obs.waitingAtRead /\ obs.timeout
    /\ obs.elapsedRecv = TimeoutIntergas + 1
    /\ obs.wiBefore = StatusMsgLen - 1 /\ obs.avail > 0

\* C5: when the 32nd byte is read less than 3000 ms after the request, the
\* assembler returns to Idle with messageReceived true and writeIndex 0, and
\* reports no Timeout.
C5_CompletesBeforeWindow ==
    (/\ obs.ran /\ obs.waitingAtRead
     /\ obs.wiBefore = StatusMsgLen - 1 /\ obs.avail > 0
     /\ obs.elapsedRecv < TimeoutIntergas) =>
        /\ obs.appended /\ Len(rx) = obs.avail - 1
        /\ obs.completed
        /\ ~waitingForAnswer
        /\ writeIndex = 0
        /\ ~obs.timeout

\* The 32nd byte read 2999 ms after the request.
C5_Witness ==
    /\ obs.ran /\ obs.waitingAtRead /\ obs.completed
    /\ obs.wiBefore = StatusMsgLen - 1
    /\ obs.elapsedRecv = TimeoutIntergas - 1

\* What issuing a request does to the anchors.
Anchored ==
    /\ obs.requested => (lastMsg = obs.t /\ receiveTimer = obs.t)
    /\ ~obs.requested => SubLong(obs.t, lastMsg) = obs.elapsedSched

\* C10, as amended: a loop iteration issues a request exactly when the time
\* since lastMsg is greater than scanPeriod, and issuing it sets lastMsg to the
\* current time.
C10_RequestAfterPeriod ==
    obs.ran => /\ obs.requested = (obs.elapsedSched > obs.period)
               /\ Anchored

\* C10 as stated: exactly when the time since lastMsg is greater than or equal
\* to scanPeriod.
C10_RequestAtPeriod ==
    obs.ran => /\ obs.requested = (obs.elapsedSched >= obs.period)
               /\ Anchored

\* A request issued one millisecond after the period has passed.
C10_Witness ==
    /\ obs.ran /\ obs.requested
    /\ obs.elapsedSched = obs.period + 1
    /\ lastMsg = obs.t

Min(a, b) == IF a < b THEN a ELSE b

\* C11: a loop iteration that finds the assembler AwaitingResponse within the
\* window, k bytes being available on the serial input, appends min(k, bytes
\* missing to 32) of them in that same iteration.
C11_DrainsAvailable ==
    (/\ obs.ran /\ obs.waitingAtRead /\ ~obs.requested
     /\ obs.elapsedRecv <= TimeoutIntergas) =>
        obs.avail - Len(rx) = Min(obs.avail, StatusMsgLen - obs.wiBefore)

(***************************************************************************)
(* The clock's wrap.  obs.realSched and obs.realRecv are the milliseconds  *)
(* that have really elapsed since lastMsg and receiveTimer were set.       *)
(***************************************************************************)
\* The long passed from MaxLong to MinLong, or from -1 to 0, between the
\* readings a and b of the counter.
WrapBetween(a, b) == (a < 0) # (b < 0)

\* C12: around a wrap of the millisecond counter the decisions follow the time
\* that has really elapsed: a request is issued once more than scanPeriod has
\* elapsed since the last one and not before; the timeout fires once more than
\* 3000 ms have elapsed since the request and not before; the 32nd byte read
\* within the window completes the frame, which is decoded.
C12_WrapTolerant ==
    obs.ran =>
        /\ (obs.realSched > obs.period) => obs.requested
        /\ (obs.realSched < obs.period) => ~obs.requested
        /\ (obs.waitingAtRead /\ obs.realRecv > TimeoutIntergas) =>
              (obs.timeout /\ ~waitingForAnswer)
        /\ (obs.waitingAtRead /\ obs.realRecv < TimeoutIntergas) => ~obs.timeout
        /\ (/\ obs.waitingAtRead /\ obs.realRecv < TimeoutIntergas
            /\ obs.wiBefore = StatusMsgLen - 1 /\ obs.avail > 0) =>
              (obs.completed /\ obs.decoded)

\* A timeout 3001 ms after a request, the long having passed from MaxLong to
\* MinLong in between.
C12_Witness ==
    /\ obs.ran /\ obs.waitingAtRead /\ obs.timeout
    /\ obs.realRecv = TimeoutIntergas + 1
    /\ receiveTimer > 0 /\ obs.t < 0

(***************************************************************************)
(* The request.  obs.port lists what requestStatus did on the serial port  *)
(* and the clock, in order.                                                *)
(***************************************************************************)
\* C13: every requestStatus call first discards all buffered serial input
\* (none is available afterwards), then writes exactly 'S', '?', carriage
\* return in that order, then records the current time in receiveTimer; after
\* the call the assembler is AwaitingResponse.
C13_RequestSteps ==
    (obs.ran /\ obs.requested) =>
        /\ Len(obs.port) = 5
        /\ obs.port[1][1] = "flush" /\ obs.port[1][3] = 0
        /\ obs.port[2] = <<"write", "S">>
        /\ obs.port[3] = <<"write", "?">>
        /\ obs.port[4] = <<"write", "\r">>
        /\ obs.port[5] = <<"millis", obs.t>>
        /\ tx = <<"S", "?", "\r">>
        /\ receiveTimer = obs.t
        /\ obs.waitingAtRead /\ obs.avail = 0
        /\ waitingForAnswer

\* A request that found two bytes buffered and discarded them.
C13_Witness ==
    /\ obs.ran /\ obs.requested
    /\ obs.port[1] = <<"flush", 2, 0>>
    /\ rx = <<>> /\ tx = <<"S", "?", "\r">>

(***************************************************************************)
(* The commands.  cmd describes the command handled last: its payload, the *)
(* number toInt read, what the handler returned and the settings before.   *)
(***************************************************************************)
\* The payload holds no number: it is empty or starts with a letter.
NonNumeric(value) ==
    Len(value) = 0 \/ ~(IsDigit(value[1]) \/ value[1] = "-" \/ value[1] = "+" \/ value[1] = " ")

RawDataKnown(value) ==
    value = <<"t", "r", "u", "e">> \/ value = <<"f", "a", "l", "s", "e">>

\* The part of C14 about rejected values: a scan-period of at most 1, or not a
\* number (read as 0), leaves scanPeriod as it was and the handler returns
\* false; a send-raw-data value other than "true" and "false" leaves
\* sendRawData as it was.
RejectedIgnored ==
    /\ (cmd.topic = "scan-period" /\ NonNumeric(cmd.payload)) => cmd.period = 0
    /\ (cmd.topic = "scan-period" /\ cmd.period <= 1) =>
          (scanPeriod = cmd.scanPeriod /\ cmd.returned = <<FALSE>>)
    /\ (cmd.topic = "send-raw-data" /\ ~RawDataKnown(cmd.payload)) =>
          (sendRawData = cmd.sendRawData /\ cmd.returned = <<FALSE>>)

\* C14: a command with a value outside the accepted range is ignored and
\* reported as rejected (RejectedIgnored), and an accepted scan-period of s
\* seconds sets scanPeriod to s * 1000.
C14_CommandRange ==
    /\ RejectedIgnored
    /\ (cmd.topic = "scan-period" /\ cmd.period > 1) =>
          (scanPeriod \div 1000 = cmd.period /\ scanPeriod % 1000 = 0)

(***************************************************************************)
(* The decoder's fields.                                                   *)
(***************************************************************************)
\* C15: a frame whose byte 27 has bit 0x80 set decodes to fault_code = 0 and
\* status_code = byte 24, whatever byte 29 is.
C15_NoFaultKeepsStatus ==
    (Decoded /\ BitAnd(inputBuffer[27], 128) = 128) =>
        /\ ch.fault_code = 0
        /\ ch.status_code = inputBuffer[24]

\* Byte 27 = 0x80 with a byte 29 that is not 0.
C15_Witness ==
    /\ Decoded /\ inputBuffer[27] = 128 /\ inputBuffer[29] = 7
    /\ inputBuffer[24] = 126
    /\ ch.fault_code = 0 /\ ch.status_code = 126

\* The value of the 16-bit two's complement pair, in hundredths.
Signed(hi, lo) == IF hi > 127 THEN Pair(hi, lo) - 65536 ELSE Pair(hi, lo)

\* C16: a frame whose byte 28 has bit 0x20 clear decodes to pressure = -35
\* whatever bytes 12 and 13 are; with the bit set the pressure is the
\* fixed-point value of (byte 13, byte 12).
C16_PressureOverride ==
    Decoded =>
        /\ BitAnd(inputBuffer[28], 32) = 0 => ch.pressure = IntToDouble(-35)
        /\ BitAnd(inputBuffer[28], 32) = 32 =>
              Hundredths(ch.pressure) = Signed(inputBuffer[13], inputBuffer[12])

\* v / k for a value that is k times another.
Unscale(v, k) == [m |-> v.m \div k, e |-> v.e]

\* The measurement v is scale times the fixed-point value of the pair at
\* offsets (at + 1, at).
FromPair(v, at, scale) ==
    /\ v.m % scale = 0
    /\ Hundredths(Unscale(v, scale)) = Signed(inputBuffer[at + 1], inputBuffer[at])

\* C17: every measurement is the fixed-point value of the pair at its offsets
\* in the field table, times its scale, and so depends on no other byte.
C17_FieldTable ==
    Decoded =>
        /\ FromPair(ch.t1, 0, 1)
        /\ FromPair(ch.temp_flow, 2, 1)
        /\ FromPair(ch.t2, 4, 1)
        /\ FromPair(ch.t3, 6, 1)
        /\ FromPair(ch.t4, 8, 1)
        /\ FromPair(ch.t5, 10, 1)
        /\ FromPair(ch.temp_setpoint, 14, 1)
        /\ FromPair(ch.fanspeed_setpoint, 16, 100)
        /\ FromPair(ch.fanspeed, 18, 100)
        /\ FromPair(ch.fan_pwm, 20, 10)
        /\ FromPair(ch.io_current, 22, 1)

(***************************************************************************)
(* Publishing.                                                             *)
(***************************************************************************)
\* C18: a frame is decoded and published exactly once, in the loop iteration
\* that appends its 32nd byte: that iteration appends no further byte and
\* issues no request after the byte, publishes the decode of the buffer as it
\* stands and leaves messageReceived false; an iteration that completes no
\* frame, and a step of the environment, publish nothing.
C18_PublishedOnce ==
    /\ ~messageReceived
    /\ obs.decoded = obs.completed
    /\ (published # <<>>) = obs.completed
    /\ obs.completed =>
          /\ obs.ran /\ obs.appended /\ Len(rx) = obs.avail - 1
          /\ obs.wiBefore = StatusMsgLen - 1 /\ writeIndex = 0
          /\ published = <<Decode(inputBuffer)>>
          /\ ch = Decode(inputBuffer)

\* A frame published while the byte after its 32nd is already available.
C18_Witness ==
    /\ obs.ran /\ obs.completed /\ published = <<ch>>
    /\ Len(rx) > 0
    /\ ~messageReceived /\ ~waitingForAnswer

(***************************************************************************)
(* Commands and the request in flight.                                     *)
(***************************************************************************)
\* C19, as amended: no command other than the input-buffer command of the
\* simulation build changes waitingForAnswer, writeIndex, receiveTimer, lastMsg
\* or the frame buffer; the input-buffer command ends the wait and sets
\* messageReceived, and leaves the other four as they are.
C19_ReconfigurationKeepsRequest ==
    [][/\ cmd'.topic # "input-buffer" =>
             UNCHANGED <<waitingForAnswer, writeIndex, receiveTimer, lastMsg, inputBuffer>>
       /\ cmd'.topic = "input-buffer" =>
             /\ ~waitingForAnswer' /\ messageReceived'
             /\ UNCHANGED <<writeIndex, receiveTimer, lastMsg, inputBuffer>>]_vars

\* C19 as stated: no command at all changes them.
C19_NoCommandEndsRequest ==
    [][UNCHANGED <<waitingForAnswer, writeIndex, receiveTimer, lastMsg, inputBuffer>>]_vars

\* The scan period set to 2 s while 31 bytes of an answer have been read.
C19_Witness ==
    /\ cmd.topic = "scan-period" /\ cmd.period = 2 /\ scanPeriod = 2000
    /\ waitingForAnswer /\ writeIndex = StatusMsgLen - 1
    /\ receiveTimer = lastMsg /\ inputBuffer[StatusMsgLen - 2] = StatusMsgLen - 2

(***************************************************************************)
(* The published text.                                                     *)
(***************************************************************************)
\* The text of a value of n hundredths: sign, whole units, a point and the
\* hundredths in two digits.
TwoDecimals(n) ==
    (IF n < 0 THEN <<"-">> ELSE <<>>) \o Digits(Abs(n) \div 100) \o
    <<".", DigitChars[((Abs(n) % 100) \div 10) + 1], DigitChars[(Abs(n) % 10) + 1]>>

\* C20: the text published for a value decoded from a byte pair (ftoa with
\* precision 2) is the sign, the whole units, a point and the hundredths of
\* the decoded value in exactly two digits.
C20_TwoFractionDigits ==
    scratch # <<>> => scratch[1] = TwoDecimals(Hundredths(result[1]))

ReadSinceRequest == (MaxResp - pending) - Len(rx)

\* C22: when a frame completes, positions 0..31 of the frame buffer hold the
\* first 32 bytes read after the most recent requestStatus call, in arrival
\* order, and no byte read before that request.
C22_FrameIsAnswerToLastRequest ==
    (obs.ran /\ obs.completed) =>
        /\ ReadSinceRequest = StatusMsgLen
        /\ \A i \in 0..(StatusMsgLen - 1) : inputBuffer[i] = i

(***************************************************************************)
(* The write index.                                                        *)
(***************************************************************************)
\* C23: between loop iterations writeIndex is in 0..31, it is 0 whenever the
\* assembler is Idle, and no byte is written at index 32 or above, whatever
\* requests, bytes, timeouts and scan-period commands came before.
C23_WriteIndexInFrame ==
    /\ writeIndex \in 0..(StatusMsgLen - 1)
    /\ ~waitingForAnswer => writeIndex = 0
    /\ (obs.ran /\ obs.appended) => obs.wiBefore \in 0..(StatusMsgLen - 1)

\* A timeout with 31 bytes of a frame in the buffer: the assembler is Idle
\* and writeIndex is back at 0.
C23_Witness ==
    /\ obs.ran /\ obs.timeout /\ obs.wiBefore = StatusMsgLen - 1
    /\ ~waitingForAnswer /\ writeIndex = 0

(***************************************************************************)
(* The scan period after commands.                                         *)
(***************************************************************************)
\* C24: after any sequence of commands scanPeriod is a positive number of
\* milliseconds, 1000 times the seconds value last accepted: an accepted
\* value s leaves scanPeriod = 1000 * s, and every other command leaves
\* scanPeriod as it was.
C24_ScanPeriodPositive ==
    /\ scanPeriod > 0
    /\ scanPeriod % 1000 = 0
    /\ IF cmd.topic = "scan-period" /\ PeriodAccepted(cmd.period)
       THEN scanPeriod \div 1000 = cmd.period
       ELSE cmd # NoCmd => scanPeriod = cmd.scanPeriod

(***************************************************************************)
(* Bytes that arrive while no request is outstanding.                      *)
(***************************************************************************)
\* C25: an iteration in which readStatus finds the assembler Idle reads no
\* byte and changes nothing (port input, frame buffer, writeIndex,
\* messageReceived, waitingForAnswer, receiveTimer, and nothing is echoed,
\* decoded or published); and a request issued while Idle discards the bytes
\* that arrived meanwhile, none of them being appended: the frame starts
\* empty.
C25_IdleReadsNothing ==
    [][ /\ (obs'.ran /\ ~obs'.waitingAtRead) =>
              /\ rx' = rx /\ inputBuffer' = inputBuffer
              /\ writeIndex' = writeIndex /\ messageReceived' = messageReceived
              /\ waitingForAnswer' = waitingForAnswer
              /\ receiveTimer' = receiveTimer
              /\ serialLog' = <<>> /\ published' = <<>> /\ ch' = ch
        /\ (obs'.ran /\ obs'.requested /\ ~waitingForAnswer) =>
              /\ obs'.port[1] = <<"flush", Len(rx), 0>>
              /\ rx' = <<>> /\ ~obs'.appended
              /\ writeIndex' = 0 /\ inputBuffer' = inputBuffer
      ]_vars

\* An iteration that found the assembler Idle with a byte waiting in the
\* port: the byte is still there.
C25_Witness ==
    /\ obs.ran /\ ~obs.waitingAtRead /\ ~obs.requested
    /\ obs.avail > 0 /\ Len(rx) = obs.avail
    /\ ~obs.appended /\ writeIndex = 0 /\ ~waitingForAnswer

====
